---- MODULE Spec2Model ----
(***************************************************************************)
(* Model of pkgbld/release.py: the release() procedure of Package-Builder. *)
(*                                                                         *)
(* A text value is a sequence of chunks (one-character strings for the     *)
(* version, longer pieces for names and path segments); "/" is always a    *)
(* chunk of its own, so suffix tests, path joins and the version regular   *)
(* expression are computed on the sequence as the code computes them on    *)
(* the string.                                                             *)
(***************************************************************************)
EXTENDS Integers, Sequences, FiniteSets, TLC

VARIABLES pc, req, cwd, wd, upload, log, err, entry

vars == <<pc, req, cwd, wd, upload, log, err, entry>>

----------------------------------------------------------------------------
(* Bounds of the model *)

MaxChannels == 2

----------------------------------------------------------------------------
(* Module constants of release.py *)

GITHUB_URL == <<"https:", "/", "/", "github.com", "/", "PSLmodels">>

ANACONDA_USER == "pslmodels"

ANACONDA_CHANNEL == ANACONDA_USER

HOME_DIR == <<"/", "home">>

BUILDS_DIR == <<"pkgbld_output">>

----------------------------------------------------------------------------
(* os.path and str helpers *)

EndsWith(s, suffix) ==
    /\ Len(suffix) <= Len(s)
    /\ SubSeq(s, Len(s) - Len(suffix) + 1, Len(s)) = suffix

StartsWith(s, prefix) ==
    /\ Len(prefix) <= Len(s)
    /\ SubSeq(s, 1, Len(prefix)) = prefix

\* os.path.join(a, b): an absolute b discards a
PathJoin(a, b) ==
    IF b # <<>> /\ b[1] = "/" THEN b
    ELSE IF a = <<>> \/ a[Len(a)] = "/" THEN a \o b
    ELSE a \o <<"/">> \o b

RECURSIVE PathJoinAll(_)
PathJoinAll(parts) ==
    IF Len(parts) = 1 THEN parts[1]
    ELSE PathJoin(PathJoinAll(SubSeq(parts, 1, Len(parts) - 1)),
                  parts[Len(parts)])

WORKING_DIR == PathJoin(HOME_DIR, <<"temporary_pkgbld_working_dir">>)

----------------------------------------------------------------------------
(* The version pattern r'^[0-9]+\.[0-9]+\.[0-9]+$' under re.match *)

Digits == {"0", "1", "2", "3", "4", "5", "6", "7", "8", "9"}

\* [0-9]+ is greedy: first index at or after i that holds no digit
RECURSIVE SkipDigits(_, _)
SkipDigits(s, i) ==
    IF i <= Len(s) /\ s[i] \in Digits THEN SkipDigits(s, i + 1) ELSE i

\* '$' matches at the end of the string and before a newline that ends it
AtDollar(s, i) ==
    \/ i = Len(s) + 1
    \/ i = Len(s) /\ s[i] = "\n"

ReMatch(s) ==
    LET a == SkipDigits(s, 1) IN
    /\ a > 1 /\ a <= Len(s) /\ s[a] = "."
    /\ LET b == SkipDigits(s, a + 1) IN
       /\ b > a + 1 /\ b <= Len(s) /\ s[b] = "."
       /\ LET c == SkipDigits(s, b + 1) IN
          /\ c > b + 1
          /\ AtDollar(s, c)

----------------------------------------------------------------------------
(* Values a caller can pass *)

Text(s) == [isStr |-> TRUE, s |-> s]

NotText == [isStr |-> FALSE, s |-> <<>>]

Flag(b) == [isBool |-> TRUE, b |-> b]

\* a truthy value that is not a bool (e.g. the integer 1)
NotFlag == [isBool |-> FALSE, b |-> TRUE]

TaxCalculator == <<"Tax-Calculator">>

taxcalc == <<"taxcalc">>

RepoNames == {Text(TaxCalculator), NotText}

PkgNames == {Text(taxcalc), NotText}

Versions ==
    { Text(<<"1", ".", "0", ".", "1">>),
      Text(<<"1", ".", "0">>),
      Text(<<"v", "1", ".", "0", ".", "1">>),
      Text(<<"1", ".", "0", ".", "1", "-", "b", "e", "t", "a">>),
      Text(<<"1", ".", "0", ".", "1", "\n">>),
      Text(<<"1", ".", ".", "1">>),
      Text(<<"1", "0", ".", "2", ".", "3">>),
      NotText }

Flags == {Flag(TRUE), Flag(FALSE), NotFlag}

ChannelNames == {"conda-forge", "bioconda"}

ChannelLists == UNION { [1..n -> ChannelNames] : n \in 0..MaxChannels }

\* channels=None (the default) or a list
ChannelArgs ==
    {[isNone |-> TRUE, list |-> <<>>]}
        \cup {[isNone |-> FALSE, list |-> l] : l \in ChannelLists}

Requests ==
    [repo_name : RepoNames, pkg_name : PkgNames, version : Versions,
     local : Flags, dryrun : Flags, channels : ChannelArgs]

----------------------------------------------------------------------------
(* The file system release() sees *)

\* directories of the user from which release() can be started
DirRepo == <<"/", "src", "/", "Tax-Calculator">>

DirRepoNoPkg == <<"/", "tmp", "/", "Tax-Calculator">>

DirSuffix == <<"/", "src", "/", "My-", "Tax-Calculator">>

DirOther == <<"/", "src", "/", "docs">>

UserDirs == {DirRepo, DirRepoNoPkg, DirSuffix, DirOther}

UserTree(dir) == IF dir = DirRepoNoPkg THEN {} ELSE {taxcalc}

\* the tree a shallow clone of a model repository delivers
RemoteTree == {taxcalc}

NoWd == [exists |-> FALSE, repo |-> <<>>, subdirs |-> {}, stamped |-> {}]

WdTree(w) == PathJoin(WORKING_DIR, w.repo)

DirExists(dir, w) ==
    \/ dir \in UserDirs
    \/ dir = HOME_DIR
    \/ w.exists /\ dir = WORKING_DIR
    \/ w.exists /\ w.repo # <<>> /\ dir = WdTree(w)

\* names of the subdirectories of dir
Listing(dir, w) ==
    IF dir \in UserDirs THEN UserTree(dir)
    ELSE IF w.exists /\ w.repo # <<>> /\ dir = WdTree(w) THEN w.subdirs
    ELSE IF w.exists /\ w.repo # <<>> /\ dir = WORKING_DIR THEN {w.repo}
    ELSE {}

\* os.path.isdir(rel) for a one-segment path relative to dir
IsDir(dir, rel, w) ==
    LET name == IF StartsWith(rel, <<".", "/">>)
                THEN SubSeq(rel, 3, Len(rel)) ELSE rel
    IN name \in Listing(dir, w)

\* directories the caller can be in when release() is called
StartDirs(w) == {d \in UserDirs \cup {PathJoin(WORKING_DIR, TaxCalculator)} :
                    DirExists(d, w)}

----------------------------------------------------------------------------
(* pkgbld.utils *)

ExitCodes == {0, 1}

\* u.os_call(cmd, ignore_error): a nonzero exit status is fatal unless ignored
OsCallRaises(exit, ignore_error) == exit # 0 /\ ~ignore_error

\* u.file_revision(filename, pattern, replacement): a missing file is fatal
FileRevisionRaises(exists) == ~exists

----------------------------------------------------------------------------
(* release(): parameter checks, lines 82-106 *)

\* variant: the type of dryrun is not checked
ValidationError_NoDryrunCheck(r, dir, w) ==
    IF ~r.repo_name.isStr THEN "repo_name is not a string object"
    ELSE IF ~r.pkg_name.isStr THEN "pkg_name is not a string object"
    ELSE IF ~r.version.isStr THEN "version is not a string object"
    ELSE IF ~r.local.isBool THEN "local is not a boolean object"
    ELSE IF r.local.b /\ ~EndsWith(dir, r.repo_name.s)
         THEN "cwd does not correspond to REPOSITORY_NAME"
    ELSE IF r.local.b /\ ~IsDir(dir, PathJoin(<<".">>, r.pkg_name.s), w)
         THEN "cwd does not contain subdirectory"
    ELSE IF ~ReMatch(r.version.s)
         THEN "version does not have X.Y.Z semantic-versioning pattern"
    ELSE "none"

ValidationError(r, dir, w) ==
    IF ~r.repo_name.isStr THEN "repo_name is not a string object"
    ELSE IF ~r.pkg_name.isStr THEN "pkg_name is not a string object"
    ELSE IF ~r.version.isStr THEN "version is not a string object"
    ELSE IF ~r.local.isBool THEN "local is not a boolean object"
    ELSE IF r.local.b /\ ~EndsWith(dir, r.repo_name.s)
         THEN "cwd does not correspond to REPOSITORY_NAME"
    ELSE IF r.local.b /\ ~IsDir(dir, PathJoin(<<".">>, r.pkg_name.s), w)
         THEN "cwd does not contain subdirectory"
    ELSE IF ~r.dryrun.isBool THEN "dryrun is not a boolean object"
    ELSE IF ~ReMatch(r.version.s)
         THEN "version does not have X.Y.Z semantic-versioning pattern"
    ELSE "none"

\* the parameters an error message of the parameter checks names
MessageNames(msg) ==
    CASE msg = "repo_name is not a string object" -> {"repo_name"}
      [] msg = "pkg_name is not a string object" -> {"pkg_name"}
      [] msg = "version is not a string object" -> {"version"}
      [] msg = "local is not a boolean object" -> {"local"}
      [] msg = "cwd does not correspond to REPOSITORY_NAME"
            -> {"cwd", "repo_name"}
      [] msg = "cwd does not contain subdirectory" -> {"cwd", "pkg_name"}
      [] msg = "dryrun is not a boolean object" -> {"dryrun"}
      [] msg = "version does not have X.Y.Z semantic-versioning pattern"
            -> {"version"}
      [] OTHER -> {}

----------------------------------------------------------------------------
(* The log of file-system operations and external commands of one call *)

Ev(op, a, b, ok) ==
    [op |-> op, a |-> a, b |-> b, ok |-> ok, cwd |-> cwd, upload |-> upload]

Raise(msg) == pc' = "raised" /\ err' = msg

NoRequest ==
    [repo_name |-> NotText, pkg_name |-> NotText, version |-> NotText,
     local |-> NotFlag, dryrun |-> NotFlag,
     channels |-> [isNone |-> TRUE, list |-> <<>>]]

Init ==
    /\ pc = "idle"
    /\ req = NoRequest
    /\ cwd = HOME_DIR
    /\ wd = NoWd
    /\ upload \in {"yes", "no"}
    /\ log = <<>>
    /\ err = "none"
    /\ entry = [cwd |-> HOME_DIR, wd |-> NoWd, upload |-> upload]

Terminated == pc \in {"returned", "done", "raised"}

\* release(...) is called with some arguments, from a directory of the user
\* or from inside the tree an earlier call left in the working directory
\* (where a call that raised leaves the process)
Call ==
    /\ pc = "idle"
    /\ \E r \in Requests, d \in StartDirs(wd) :
          /\ req' = r
          /\ cwd' = d
          /\ entry' = [cwd |-> d, wd |-> wd, upload |-> upload]
    /\ pc' = "validate"
    /\ log' = <<>>
    /\ err' = "none"
    /\ UNCHANGED <<wd, upload>>

\* lines 82-106
Validate ==
    /\ pc = "validate"
    /\ LET msg == ValidationError(req, cwd, wd) IN
          IF msg # "none" THEN Raise(msg)
          ELSE pc' = "plan" /\ err' = err
    /\ UNCHANGED <<req, cwd, wd, upload, log, entry>>

\* variant: the dry-run return is missing
PlanNext_NoReturn(dryrun) == "rm_old"

\* lines 108-125
PlanNext(dryrun) == IF dryrun THEN "returned" ELSE "rm_old"

ShowPlan ==
    /\ pc = "plan"
    /\ pc' = PlanNext(req.dryrun.b)
    /\ UNCHANGED <<req, cwd, wd, upload, log, err, entry>>

\* variant: an old working directory is kept
RemoveOldTree_Kept(w) == w

\* lines 127-129: remove any old working directory
RemoveOldTree(w) == IF w.exists THEN NoWd ELSE w

AcquireNext(local) == IF local THEN "copy" ELSE "mkdir"

RemoveOld ==
    /\ pc = "rm_old"
    /\ wd' = RemoveOldTree(wd)
    /\ log' = IF wd.exists
              THEN Append(log, Ev("rmtree", WORKING_DIR, <<>>, TRUE))
              ELSE log
    /\ pc' = AcquireNext(req.local.b)
    /\ UNCHANGED <<req, cwd, upload, err, entry>>

\* lines 132-138: shutil.copytree(cwd, destination) and os.chdir(WORKING_DIR);
\* copytree raises when the source is gone or the destination exists
CopyTree ==
    /\ pc = "copy"
    /\ LET source == cwd  \* the local variable cwd of line 91
           destination == PathJoin(WORKING_DIR, req.repo_name.s)
           ok == DirExists(source, wd) /\ ~DirExists(destination, wd)
       IN /\ log' = Append(log, Ev("copytree", source, destination, ok))
          /\ IF ok
             THEN /\ wd' = [exists |-> TRUE, repo |-> req.repo_name.s,
                            subdirs |-> Listing(source, wd), stamped |-> {}]
                  /\ cwd' = WORKING_DIR
                  /\ pc' = "chdir_repo"
                  /\ err' = err
             ELSE /\ Raise(IF DirExists(destination, wd)
                        THEN "FileExistsError" ELSE "FileNotFoundError")
                  /\ UNCHANGED <<wd, cwd>>
    /\ UNCHANGED <<req, upload, entry>>

\* lines 143-144: os.mkdir(WORKING_DIR) and os.chdir(WORKING_DIR)
MkdirWorking ==
    /\ pc = "mkdir"
    /\ log' = Append(log, Ev("mkdir", WORKING_DIR, <<>>, ~wd.exists))
    /\ IF wd.exists
       THEN /\ Raise("FileExistsError")
            /\ UNCHANGED <<wd, cwd>>
       ELSE /\ wd' = [NoWd EXCEPT !.exists = TRUE]
            /\ cwd' = WORKING_DIR
            /\ pc' = "clone"
            /\ err' = err
    /\ UNCHANGED <<req, upload, entry>>

\* lines 145-148: git clone --branch <version> --depth 1 <url>/<repo_name>/
CloneUrl(repo_name) == GITHUB_URL \o <<"/">> \o repo_name \o <<"/">>

GitClone ==
    /\ pc = "clone"
    /\ \E exit \in ExitCodes :
          /\ log' = Append(log, Ev("git clone", req.version.s,
                                   CloneUrl(req.repo_name.s), exit = 0))
          /\ IF OsCallRaises(exit, FALSE)
             THEN Raise("git clone failed") /\ wd' = wd
             ELSE /\ wd' = [wd EXCEPT !.repo = req.repo_name.s,
                                      !.subdirs = RemoteTree]
                  /\ pc' = "chdir_repo"
                  /\ err' = err
    /\ UNCHANGED <<req, cwd, upload, entry>>

\* line 149: os.chdir(repo_name)
ChdirRepo ==
    /\ pc = "chdir_repo"
    /\ LET target == PathJoin(cwd, req.repo_name.s) IN
          IF DirExists(target, wd)
          THEN cwd' = target /\ pc' = "stamp_meta" /\ err' = err
          ELSE Raise("chdir failed") /\ cwd' = cwd
    /\ UNCHANGED <<req, wd, upload, log, entry>>

----------------------------------------------------------------------------
(* lines 151-170: the version is written into three files *)

MetaFile == PathJoin(<<"conda.recipe">>, <<"meta.yaml">>)

SetupFile == <<"setup.py">>

InitFile(pkg_name) == PathJoin(pkg_name, <<"__init__.py">>)

MetaText(version) == <<"version: ">> \o version

SetupText(version) == <<"version = \"">> \o version \o <<"\"">>

InitText(version) == <<"__version__ = \"">> \o version \o <<"\"">>

\* one u.file_revision call; the file is looked up from the current directory
Stamp(from, to, filename, replacement) ==
    /\ pc = from
    /\ \E exists \in BOOLEAN :
          /\ log' = Append(log, Ev("file_revision", filename,
                                   replacement, exists))
          /\ IF FileRevisionRaises(exists)
             THEN Raise("file_revision failed") /\ wd' = wd
             ELSE /\ wd' = [wd EXCEPT !.stamped =
                       {f \in @ : f.file # PathJoin(cwd, filename)}
                         \cup {[file |-> PathJoin(cwd, filename),
                                text |-> replacement]}]
                  /\ pc' = to
                  /\ err' = err
    /\ UNCHANGED <<req, cwd, upload, entry>>

StampMeta ==
    Stamp("stamp_meta", "stamp_setup", MetaFile, MetaText(req.version.s))

StampSetup ==
    Stamp("stamp_setup", "stamp_init", SetupFile, SetupText(req.version.s))

\* variant: the third file is not written
StampInit_Skipped ==
    /\ pc = "stamp_init"
    /\ pc' = "config"
    /\ UNCHANGED <<req, cwd, wd, upload, log, err, entry>>

StampInit ==
    Stamp("stamp_init", "config", InitFile(req.pkg_name.s),
          InitText(req.version.s))

----------------------------------------------------------------------------
(* lines 172-190: channels, upload setting, build *)

\* lines 172-175: channel_str, as the words of the command line
RECURSIVE ChannelLoop(_)
ChannelLoop(list) ==
    IF list = <<>> THEN <<>>
    ELSE <<"--channel", Head(list)>> \o ChannelLoop(Tail(list))

\* variant: the two fixed channels come first
ChannelStr_FixedFirst(channels) ==
    <<"--channel", "defaults", "--channel", ANACONDA_CHANNEL>>
        \o ChannelLoop(IF channels.isNone THEN <<>> ELSE channels.list)

ChannelStr(channels) ==
    ChannelLoop(IF channels.isNone THEN <<>> ELSE channels.list)
        \o <<"--channel", "defaults", "--channel", ANACONDA_CHANNEL>>

\* variant: upload is enabled in both modes
UploadSetting_AlwaysYes(local) == "yes"

\* lines 177-180
UploadSetting(local) == IF local THEN "no" ELSE "yes"

ConfigUpload ==
    /\ pc = "config"
    /\ \E exit \in ExitCodes :
          /\ log' = Append(log, Ev("conda config", <<"anaconda_upload">>,
                                   <<UploadSetting(req.local.b)>>, exit = 0))
          /\ IF OsCallRaises(exit, FALSE)
             THEN Raise("conda config failed") /\ upload' = upload
             ELSE /\ upload' = UploadSetting(req.local.b)
                  /\ pc' = "build"
                  /\ err' = err
    /\ UNCHANGED <<req, cwd, wd, entry>>

BuildNext(local) == IF local THEN "uninstall" ELSE "purge"

\* lines 183-190: conda build conda.recipe/ ... --output-folder BUILDS_DIR
CondaBuild ==
    /\ pc = "build"
    /\ \E exit \in ExitCodes :
          /\ log' = Append(log, Ev("conda build", BUILDS_DIR,
                                   ChannelStr(req.channels), exit = 0))
          /\ IF OsCallRaises(exit, FALSE)
             THEN Raise("conda build failed")
             ELSE pc' = BuildNext(req.local.b) /\ err' = err
    /\ UNCHANGED <<req, cwd, wd, upload, entry>>

----------------------------------------------------------------------------
(* lines 192-201: local install *)

\* variant: a failing uninstall is fatal
UninstallIgnoreError_Off == FALSE

\* line 196: ignore_error=True
UninstallIgnoreError == TRUE

CondaUninstall ==
    /\ pc = "uninstall"
    /\ \E exit \in ExitCodes :
          /\ log' = Append(log, Ev("conda uninstall", req.pkg_name.s,
                                   <<>>, exit = 0))
          /\ IF OsCallRaises(exit, UninstallIgnoreError)
             THEN Raise("conda uninstall failed")
             ELSE pc' = "install" /\ err' = err
    /\ UNCHANGED <<req, cwd, wd, upload, entry>>

\* lines 198-199
PkgDir(repo_name) ==
    PathJoinAll(<< <<"file:", "/", "/">>, WORKING_DIR, repo_name,
                   <<"pkgbld_output">> >>)

\* line 200-201: the package spec <pkg_name>=<version>
PkgSpec(pkg_name, version) == pkg_name \o <<"=">> \o version

CondaInstall ==
    /\ pc = "install"
    /\ \E exit \in ExitCodes :
          /\ log' = Append(log, Ev("conda install",
                                   PkgSpec(req.pkg_name.s, req.version.s),
                                   PkgDir(req.repo_name.s), exit = 0))
          /\ IF OsCallRaises(exit, FALSE)
             THEN Raise("conda install failed")
             ELSE pc' = "purge" /\ err' = err
    /\ UNCHANGED <<req, cwd, wd, upload, entry>>

----------------------------------------------------------------------------
(* lines 203-213: clean-up *)

CondaPurge ==
    /\ pc = "purge"
    /\ \E exit \in ExitCodes :
          /\ log' = Append(log, Ev("conda build purge", <<>>, <<>>, exit = 0))
          /\ IF OsCallRaises(exit, FALSE)
             THEN Raise("conda build purge failed")
             ELSE pc' = "cleanup" /\ err' = err
    /\ UNCHANGED <<req, cwd, wd, upload, entry>>

\* variant: the working directory is not removed at the end
RemoveTree_Kept(w) == w

\* lines 210-211: os.chdir(HOME_DIR) and shutil.rmtree(WORKING_DIR)
RemoveTree(w) == NoWd

RemoveWorking ==
    /\ pc = "cleanup"
    /\ cwd' = HOME_DIR
    /\ wd' = RemoveTree(wd)
    /\ log' = Append(log, Ev("rmtree", WORKING_DIR, <<>>, TRUE))
    /\ pc' = "done"
    /\ UNCHANGED <<req, upload, err, entry>>

\* release() has returned or raised: control is back with the caller, and
\* only the file system and the conda configuration outlive the call
Exit ==
    /\ Terminated
    /\ pc' = "idle"
    /\ req' = NoRequest
    /\ cwd' = HOME_DIR
    /\ log' = <<>>
    /\ err' = "none"
    /\ entry' = [cwd |-> HOME_DIR, wd |-> NoWd, upload |-> upload]
    /\ UNCHANGED <<wd, upload>>

Next ==
    \/ Call \/ Validate \/ ShowPlan \/ RemoveOld
    \/ CopyTree \/ MkdirWorking \/ GitClone \/ ChdirRepo
    \/ StampMeta \/ StampSetup \/ StampInit
    \/ ConfigUpload \/ CondaBuild
    \/ CondaUninstall \/ CondaInstall
    \/ CondaPurge \/ RemoveWorking
    \/ Exit

Spec == Init /\ [][Next]_vars

----------------------------------------------------------------------------
(* Vocabulary of the properties *)

ValidationFailed == pc = "raised" /\ MessageNames(err) # {}

ValidationDone == pc \notin {"idle", "validate"}

ValidationPassed == ValidationDone /\ ~ValidationFailed

\* nothing was removed, created, entered, configured or run since the call
NoSideEffect ==
    /\ log = <<>>
    /\ wd = entry.wd
    /\ cwd = entry.cwd
    /\ upload = entry.upload

\* final path segment: the chunks after the last "/"
RECURSIVE Basename(_)
Basename(path) ==
    IF path = <<>> \/ path[Len(path)] = "/" THEN <<>>
    ELSE Append(Basename(SubSeq(path, 1, Len(path) - 1)), path[Len(path)])

LocationMessages ==
    {"cwd does not correspond to REPOSITORY_NAME",
     "cwd does not contain subdirectory"}

VersionShapeMessage ==
    "version does not have X.Y.Z semantic-versioning pattern"

\* over its whole length: digits, a dot, digits, a dot, digits
FullShape(s) ==
    \E i, j \in 1..Len(s) :
        /\ 1 < i /\ i + 1 < j /\ j < Len(s)
        /\ s[i] = "." /\ s[j] = "."
        /\ \A k \in (1..Len(s)) \ {i, j} : s[k] \in Digits

IsStamp(e) == e.op = "file_revision"

IsBuild(e) == e.op = "conda build"

LogHas(op) == \E i \in 1..Len(log) : log[i].op = op

LogHasFailed(op) == \E i \in 1..Len(log) : log[i].op = op /\ ~log[i].ok

ExtraChannels == IF req.channels.isNone THEN <<>> ELSE req.channels.list

\* the values that follow each --channel word of a command line
RECURSIVE ChannelValues(_)
ChannelValues(words) ==
    IF Len(words) < 2 THEN <<>>
    ELSE IF words[1] = "--channel"
         THEN <<words[2]>> \o ChannelValues(SubSeq(words, 3, Len(words)))
         ELSE ChannelValues(Tail(words))

\* the parameters of the request that have the wrong type
Offending(r) ==
    {n \in {"repo_name"} : ~r.repo_name.isStr}
      \cup {n \in {"pkg_name"} : ~r.pkg_name.isStr}
      \cup {n \in {"version"} : ~r.version.isStr}
      \cup {n \in {"local"} : ~r.local.isBool}
      \cup {n \in {"dryrun"} : ~r.dryrun.isBool}

----------------------------------------------------------------------------
(* C1: a text version that is not, over its whole length, digits.digits.   *)
(* digits is rejected by the parameter checks before any side effect, and  *)
(* a version of exactly that shape is never rejected for its shape.        *)
C1_VersionCheck ==
    (ValidationDone /\ req.version.isStr) =>
        /\ ~FullShape(req.version.s) => (ValidationFailed /\ NoSideEffect)
        /\ FullShape(req.version.s) => err # VersionShapeMessage

----------------------------------------------------------------------------
(* C2 as stated: whenever a parameter has the wrong type, release() raises *)
(* before any side effect and the message names a wrong-typed parameter.   *)
C2_Original ==
    (ValidationDone /\ Offending(req) # {}) =>
        /\ pc = "raised"
        /\ NoSideEffect
        /\ MessageNames(err) \cap Offending(req) # {}

\* the location check of local mode as the code makes it
LocationFails ==
    \/ ~EndsWith(entry.cwd, req.repo_name.s)
    \/ req.pkg_name.s \notin Listing(entry.cwd, entry.wd)

\* the one case in which the wrong-typed parameter is not the one reported
DryrunShadowed ==
    /\ Offending(req) = {"dryrun"}
    /\ req.local.b
    /\ LocationFails

(* C2 as amended: whenever a parameter has the wrong type, release()       *)
(* raises before any side effect; the message names a wrong-typed          *)
(* parameter, except that with local=True and a failing location check a   *)
(* wrong-typed dryrun is not reported: the location error is raised.       *)
C2_Amended ==
    (ValidationDone /\ Offending(req) # {}) =>
        /\ pc = "raised"
        /\ NoSideEffect
        /\ IF DryrunShadowed
           THEN err \in LocationMessages
           ELSE MessageNames(err) \cap Offending(req) # {}

C2_Witness ==
    /\ pc = "raised"
    /\ err = "dryrun is not a boolean object"
    /\ req.local = Flag(TRUE)
    /\ ~ReMatch(req.version.s)
    /\ entry.wd.exists

----------------------------------------------------------------------------
(* C3: a valid request with dryrun=True returns after the plan with no     *)
(* side effect at all (working directory, current directory, upload        *)
(* setting and command log as at the call); and a call that ends with no   *)
(* side effect either failed validation or was a dry run.                  *)
C3_DryRun ==
    /\ (ValidationPassed /\ req.dryrun.b) =>
          (pc \in {"plan", "returned"} /\ NoSideEffect)
    /\ (Terminated /\ log = <<>>) =>
          (ValidationFailed \/ (pc = "returned" /\ req.dryrun = Flag(TRUE)))

C3_Witness ==
    /\ pc = "returned"
    /\ req.local = Flag(TRUE)
    /\ entry.wd.exists
    /\ entry.wd.stamped # {}

----------------------------------------------------------------------------
(* C4: with local=True the location check passes exactly when the final    *)
(* path segment of the current directory equals repo_name and a            *)
(* subdirectory pkg_name exists, and fails before any side effect          *)
(* otherwise; with local=False there is no location check.                 *)
C4_LocationCheck ==
    (/\ ValidationDone
     /\ req.repo_name.isStr /\ req.pkg_name.isStr /\ req.version.isStr
     /\ req.local.isBool) =>
        IF req.local.b
        THEN /\ err \notin LocationMessages <=>
                  (/\ Basename(entry.cwd) = req.repo_name.s
                   /\ req.pkg_name.s \in Listing(entry.cwd, entry.wd))
             /\ err \in LocationMessages => (pc = "raised" /\ NoSideEffect)
        ELSE err \notin LocationMessages

----------------------------------------------------------------------------
(* C5: every build is preceded by exactly three successful stamps, of      *)
(* meta.yaml, setup.py and <pkg_name>/__init__.py in this order, each with *)
(* the requested version and made in the tree inside the working           *)
(* directory; no file is stamped twice; after a failed stamp the call has  *)
(* raised and no build is run.                                             *)
StampTargets ==
    << [a |-> MetaFile, b |-> MetaText(req.version.s)],
       [a |-> SetupFile, b |-> SetupText(req.version.s)],
       [a |-> InitFile(req.pkg_name.s), b |-> InitText(req.version.s)] >>

C5_StampedBeforeBuild ==
    /\ \A i \in 1..Len(log) : IsBuild(log[i]) =>
          LET st == SelectSeq(SubSeq(log, 1, i - 1), IsStamp) IN
          /\ Len(st) = 3
          /\ \A k \in 1..3 :
                /\ st[k].ok
                /\ st[k].a = StampTargets[k].a
                /\ st[k].b = StampTargets[k].b
                /\ st[k].cwd = PathJoin(WORKING_DIR, req.repo_name.s)
    /\ pc = "build" =>
          wd.stamped =
             {[file |-> PathJoin(WdTree(wd), StampTargets[k].a),
               text |-> StampTargets[k].b] : k \in 1..3}
    /\ Len(SelectSeq(log, IsStamp)) <= 3
    /\ LogHasFailed("file_revision") =>
          (pc = "raised" /\ ~LogHas("conda build"))

C5_Witness ==
    /\ LogHas("conda build")
    /\ req.local = Flag(TRUE)
    /\ entry.cwd = DirRepo

----------------------------------------------------------------------------
(* C6 as stated: no call that reached the build ends with the working      *)
(* directory still present, and the purge was invoked.                     *)
C6_Original ==
    (Terminated /\ LogHas("conda build")) =>
        (~wd.exists /\ LogHas("conda build purge"))

(* C6 as amended: a call that reached the build ends in one of two ways.   *)
(* If the build, the local install or the purge reported a nonzero exit    *)
(* status, the call raised and the working directory is still present.     *)
(* Otherwise (a failed uninstall included) the purge was invoked, the      *)
(* working directory was removed last and the process is back in HOME_DIR. *)
C6_Amended ==
    (Terminated /\ LogHas("conda build")) =>
        IF \/ LogHasFailed("conda build")
           \/ LogHasFailed("conda install")
           \/ LogHasFailed("conda build purge")
        THEN pc = "raised" /\ wd.exists
        ELSE /\ pc = "done"
             /\ LogHas("conda build purge")
             /\ log[Len(log)].op = "rmtree"
             /\ ~wd.exists
             /\ cwd = HOME_DIR

C6_Witness ==
    /\ pc = "done"
    /\ LogHasFailed("conda uninstall")
    /\ ~wd.exists

----------------------------------------------------------------------------
(* C7: the build is invoked at most once per call, exactly once when the   *)
(* call got past the build step, and its channel arguments are the extra   *)
(* channels of the request in the caller's order, then defaults, then      *)
(* pslmodels.                                                              *)
C7_Channels ==
    /\ Len(SelectSeq(log, IsBuild)) <= 1
    /\ pc \in {"uninstall", "install", "purge", "cleanup", "done"} =>
          Len(SelectSeq(log, IsBuild)) = 1
    /\ \A i \in 1..Len(log) : IsBuild(log[i]) =>
          /\ ChannelValues(log[i].b) = ExtraChannels \o <<"defaults", "pslmodels">>
          /\ Len(ChannelValues(log[i].b)) = Len(ExtraChannels) + 2

C7_Witness ==
    /\ LogHas("conda build")
    /\ ~req.channels.isNone
    /\ req.channels.list = <<"conda-forge", "bioconda">>

----------------------------------------------------------------------------
(* C8: when the build is invoked the upload setting is "yes" exactly when  *)
(* the request has local=False; after a failed 'conda config' the call has *)
(* raised and no build is run.                                             *)
C8_UploadAtBuild ==
    /\ \A i \in 1..Len(log) : IsBuild(log[i]) =>
          (log[i].upload = "yes" <=> req.local = Flag(FALSE))
    /\ LogHasFailed("conda config") =>
          (pc = "raised" /\ ~LogHas("conda build"))

C8_Witness ==
    /\ LogHas("conda build")
    /\ req.local = Flag(TRUE)
    /\ entry.upload = "yes"

----------------------------------------------------------------------------
(* C9: uninstall and install run only with local=True and after a          *)
(* successful build; install directly follows uninstall whether or not     *)
(* uninstall succeeded; install asks for <pkg_name>=<version> from the     *)
(* output folder of the build, which lies inside the working directory; a  *)
(* failed install raises; local=True never clones and copies instead.      *)
C9_LocalInstall ==
    /\ \A i \in 1..Len(log) :
          log[i].op \in {"conda uninstall", "conda install"} =>
             /\ req.local = Flag(TRUE)
             /\ \E j \in 1..(i - 1) : IsBuild(log[j]) /\ log[j].ok
    /\ \A i \in 1..Len(log) : log[i].op = "conda install" =>
          /\ i > 1 /\ log[i - 1].op = "conda uninstall"
          /\ log[i].a = req.pkg_name.s \o <<"=">> \o req.version.s
          /\ \E j \in 1..(i - 1) :
                /\ IsBuild(log[j])
                /\ log[i].b = PathJoin(log[j].cwd, log[j].a)
          /\ StartsWith(log[i].b, WORKING_DIR \o <<"/">>)
          /\ ~log[i].ok => (pc = "raised" /\ i = Len(log))
    /\ \A i \in 1..Len(log) : log[i].op = "conda uninstall" =>
          IF i = Len(log) THEN pc = "install"
          ELSE log[i + 1].op = "conda install"
    /\ req.local.isBool /\ req.local.b => ~LogHas("git clone")
    /\ LogHas("file_revision") =>
          IF req.local.b THEN LogHas("copytree") ELSE LogHas("git clone")

C9_Witness ==
    /\ LogHasFailed("conda uninstall")
    /\ LogHas("conda install")

----------------------------------------------------------------------------
(* C10: a call that raised in the clone, in a stamp or in an external tool *)
(* leaves the working directory behind with every stamp made so far and    *)
(* the process inside it; and when a later call copies or makes the        *)
(* working directory, that directory does not exist, so neither step       *)
(* raises because the directory is already there.                          *)
AcquisitionErrors ==
    {"git clone failed", "file_revision failed", "conda config failed",
     "conda build failed", "conda install failed", "conda build purge failed"}

StampsMade ==
    {[file |-> PathJoin(log[i].cwd, log[i].a), text |-> log[i].b] :
        i \in {k \in 1..Len(log) : IsStamp(log[k]) /\ log[k].ok}}

====
